---- MODULE Spec2Model ----
(***************************************************************************)
(* envx-ui: the structure-preserving .env store (server/env.service.js)    *)
(* and the key routes of the HTTP layer (server/index.js).                 *)
(*                                                                         *)
(* A JavaScript string is a sequence of one-character strings.  A parsed   *)
(* line is a record shaped as the object the parser pushes: non-entry      *)
(* lines carry {type, raw}, entry lines {type, key, value, encrypted, raw}.*)
(***************************************************************************)
EXTENDS Integers, Sequences, FiniteSets, TLC

\* ------------------------------------------------------------------------
\* Characters
\* ------------------------------------------------------------------------
LF == "\n"
DQ == "\""
SQ == "'"
BS == "\\"
SP == " "
TAB == "\t"
EQ == "="
HASH == "#"

\* String.prototype.trim strips white space and line terminators; the ones
\* that occur in the modelled texts are the space and the tab.
WhiteSpace == {SP, TAB, LF}

\* The literal 'encrypted:' of startsWith('encrypted:').
EncPrefix == <<"e", "n", "c", "r", "y", "p", "t", "e", "d", ":">>

\* ------------------------------------------------------------------------
\* String primitives used by env.service.js
\* ------------------------------------------------------------------------
\* s.startsWith(p)
StartsWith(s, p) == Len(s) >= Len(p) /\ SubSeq(s, 1, Len(p)) = p

\* s.endsWith(p)
EndsWith(s, p) == Len(s) >= Len(p) /\ SubSeq(s, Len(s) - Len(p) + 1, Len(s)) = p

\* s.includes(c), c one character
Includes(s, c) == \E i \in 1..Len(s) : s[i] = c

\* s.indexOf(c), 1-based; 0 stands for JavaScript's -1
IndexOf(s, c) == IF Includes(s, c)
                 THEN CHOOSE i \in 1..Len(s) : s[i] = c /\ \A j \in 1..(i - 1) : s[j] # c
                 ELSE 0

\* s.trim()
Trim(s) ==
  LET keep == {i \in 1..Len(s) : s[i] \notin WhiteSpace}
  IN IF keep = {} THEN <<>>
     ELSE LET lo == CHOOSE i \in keep : \A j \in keep : i <= j
              hi == CHOOSE i \in keep : \A j \in keep : j <= i
          IN SubSeq(s, lo, hi)

\* s.slice(1, -1)
SliceInner(s) == IF Len(s) >= 2 THEN SubSeq(s, 2, Len(s) - 1) ELSE <<>>

\* content.split('\n'): always at least one segment
RECURSIVE Split(_)
Split(s) ==
  LET i == IndexOf(s, LF)
  IN IF i = 0 THEN <<s>>
     ELSE <<SubSeq(s, 1, i - 1)>> \o Split(SubSeq(s, i + 1, Len(s)))

\* lines.join('\n')
RECURSIVE Join(_)
Join(ls) ==
  IF Len(ls) = 0 THEN <<>>
  ELSE IF Len(ls) = 1 THEN ls[1]
  ELSE ls[1] \o <<LF>> \o Join(Tail(ls))

\* value.replace(/"/g, '\\"')
RECURSIVE EscapeQuotes(_)
EscapeQuotes(s) ==
  IF s = <<>> THEN <<>>
  ELSE (IF Head(s) = DQ THEN <<BS, DQ>> ELSE <<Head(s)>>) \o EscapeQuotes(Tail(s))

\* ------------------------------------------------------------------------
\* parseEnvFile
\* ------------------------------------------------------------------------
\* Variant of ParseValue that keeps the quotes around the right-hand side.
ParseValueKeepQuotes(value) == Trim(value)

\* The quote test and strip of the right-hand side.
ParseValue(value) ==
  LET trimmedValue == Trim(value)
  IN IF \/ (StartsWith(trimmedValue, <<DQ>>) /\ EndsWith(trimmedValue, <<DQ>>))
        \/ (StartsWith(trimmedValue, <<SQ>>) /\ EndsWith(trimmedValue, <<SQ>>))
     THEN SliceInner(trimmedValue)
     ELSE trimmedValue

\* Variant of ParseLine that splits the line at its last '='.
ParseLineLastEq(raw) ==
  LET trimmed == Trim(raw)
      eqs == {i \in 1..Len(raw) : raw[i] = EQ}
      eqIndex == IF eqs = {} THEN 0 ELSE CHOOSE i \in eqs : \A j \in eqs : i >= j
  IN IF trimmed = <<>> THEN [type |-> "empty", raw |-> raw]
     ELSE IF StartsWith(trimmed, <<HASH>>) THEN [type |-> "comment", raw |-> raw]
     ELSE IF eqIndex # 0
          THEN LET parsedValue == ParseValue(SubSeq(raw, eqIndex + 1, Len(raw)))
               IN [type      |-> "entry",
                   key       |-> Trim(SubSeq(raw, 1, eqIndex - 1)),
                   value     |-> parsedValue,
                   encrypted |-> StartsWith(parsedValue, EncPrefix),
                   raw       |-> raw]
          ELSE [type |-> "unknown", raw |-> raw]

\* The body of the for loop: one raw line to one pushed object.
ParseLine(raw) ==
  LET trimmed == Trim(raw)
      eqIndex == IndexOf(raw, EQ)
  IN IF trimmed = <<>> THEN [type |-> "empty", raw |-> raw]
     ELSE IF StartsWith(trimmed, <<HASH>>) THEN [type |-> "comment", raw |-> raw]
     ELSE IF eqIndex # 0
          THEN LET parsedValue == ParseValue(SubSeq(raw, eqIndex + 1, Len(raw)))
               IN [type      |-> "entry",
                   key       |-> Trim(SubSeq(raw, 1, eqIndex - 1)),
                   value     |-> parsedValue,
                   encrypted |-> StartsWith(parsedValue, EncPrefix),
                   raw       |-> raw]
          ELSE [type |-> "unknown", raw |-> raw]

\* Variant of parseEnvFile that drops an empty segment after the last
\* line-feed.
parseEnvFileDropLast(content) ==
  LET all == Split(content)
      lines == IF Len(all) > 1 /\ all[Len(all)] = <<>>
               THEN SubSeq(all, 1, Len(all) - 1) ELSE all
  IN [i \in 1..Len(lines) |-> ParseLine(lines[i])]

\* result.lines for a file whose content is `content`.
parseEnvFile(content) ==
  LET lines == Split(content)
  IN [i \in 1..Len(lines) |-> ParseLine(lines[i])]

\* ------------------------------------------------------------------------
\* getEntries
\* ------------------------------------------------------------------------
\* Variant of getEntries that lists a key once, by its first line.
getEntriesUnique(parsed) ==
  LET firsts == {i \in 1..Len(parsed) :
                   /\ parsed[i].type = "entry"
                   /\ \A j \in 1..(i - 1) :
                        parsed[j].type = "entry" => parsed[j].key # parsed[i].key}
      Nth(k) == CHOOSE i \in firsts : Cardinality({j \in firsts : j <= i}) = k
  IN [k \in 1..Cardinality(firsts) |->
        [key |-> parsed[Nth(k)].key, value |-> parsed[Nth(k)].value,
         encrypted |-> parsed[Nth(k)].encrypted]]

getEntries(parsed) ==
  LET entryLines == SelectSeq(parsed, LAMBDA l : l.type = "entry")
  IN [i \in 1..Len(entryLines) |->
        [key |-> entryLines[i].key, value |-> entryLines[i].value,
         encrypted |-> entryLines[i].encrypted]]

\* ------------------------------------------------------------------------
\* writeEnvFile
\* ------------------------------------------------------------------------
\* Variant of NeedsQuotes without the test for a single quote.
NeedsQuotesNoSingle(value) ==
  \/ Includes(value, SP)
  \/ Includes(value, HASH)
  \/ Includes(value, LF)
  \/ Includes(value, DQ)

NeedsQuotes(value) ==
  \/ Includes(value, SP)
  \/ Includes(value, HASH)
  \/ Includes(value, LF)
  \/ Includes(value, DQ)
  \/ Includes(value, SQ)

\* Variant of WriteLine that normalises the lines it does not regenerate.
WriteLineTrimmed(line) ==
  IF line.type = "entry"
  THEN IF NeedsQuotes(line.value)
       THEN line.key \o <<EQ, DQ>> \o EscapeQuotes(line.value) \o <<DQ>>
       ELSE line.key \o <<EQ>> \o line.value
  ELSE Trim(line.raw)

\* The callback of parsed.lines.map: the text emitted for one line.
WriteLine(line) ==
  IF line.type = "entry"
  THEN IF NeedsQuotes(line.value)
       THEN line.key \o <<EQ, DQ>> \o EscapeQuotes(line.value) \o <<DQ>>
       ELSE line.key \o <<EQ>> \o line.value
  ELSE line.raw

\* The content handed to fs.writeFileSync.
writeEnvFile(parsed) == Join([i \in 1..Len(parsed) |-> WriteLine(parsed[i])])

\* ------------------------------------------------------------------------
\* addEntry / updateEntry / deleteEntry
\* A call yields [ok, lines]: ok = FALSE is the thrown Error, and lines is
\* parsed.lines as the call leaves it.
\* ------------------------------------------------------------------------
\* Variant of FindIndex that answers the last matching line.
FindIndexLast(parsed, key) ==
  LET hits == {i \in 1..Len(parsed) : parsed[i].type = "entry" /\ parsed[i].key = key}
  IN IF hits = {} THEN 0 ELSE CHOOSE i \in hits : \A j \in hits : i >= j

\* parsed.lines.findIndex(l => l.type === 'entry' && l.key === key), 1-based;
\* 0 stands for -1.  Array.prototype.find returns the line at that index.
FindIndex(parsed, key) ==
  LET hits == {i \in 1..Len(parsed) : parsed[i].type = "entry" /\ parsed[i].key = key}
  IN IF hits = {} THEN 0 ELSE CHOOSE i \in hits : \A j \in hits : i <= j

\* Variant of addEntry that overwrites the entry of a key that is present.
addEntryUpsert(parsed, key, value) ==
  LET i == FindIndex(parsed, key)
      line == [type      |-> "entry",
               key       |-> key,
               value     |-> value,
               encrypted |-> StartsWith(value, EncPrefix),
               raw       |-> key \o <<EQ>> \o value]
  IN IF i # 0
     THEN [ok |-> TRUE, lines |-> [parsed EXCEPT ![i] = line]]
     ELSE [ok |-> TRUE, lines |-> Append(parsed, line)]

\* Variant of addEntry without the test for an existing key.
addEntryNoCheck(parsed, key, value) ==
  [ok |-> TRUE,
   lines |-> Append(parsed, [type      |-> "entry",
                             key       |-> key,
                             value     |-> value,
                             encrypted |-> StartsWith(value, EncPrefix),
                             raw       |-> key \o <<EQ>> \o value])]

\* Variant of addEntry that puts the new line first.
addEntryPrepend(parsed, key, value) ==
  IF FindIndex(parsed, key) # 0
  THEN [ok |-> FALSE, lines |-> parsed]
  ELSE [ok |-> TRUE,
        lines |-> <<[type      |-> "entry",
                     key       |-> key,
                     value     |-> value,
                     encrypted |-> StartsWith(value, EncPrefix),
                     raw       |-> key \o <<EQ>> \o value]>> \o parsed]

addEntry(parsed, key, value) ==
  IF FindIndex(parsed, key) # 0
  THEN [ok |-> FALSE, lines |-> parsed]
  ELSE [ok |-> TRUE,
        lines |-> Append(parsed, [type      |-> "entry",
                                  key       |-> key,
                                  value     |-> value,
                                  encrypted |-> StartsWith(value, EncPrefix),
                                  raw       |-> key \o <<EQ>> \o value])]

\* Variant of updateEntry that leaves the encrypted flag as it was.
updateEntryStaleFlag(parsed, key, newValue) ==
  LET i == FindIndex(parsed, key)
  IN IF i = 0
     THEN [ok |-> FALSE, lines |-> parsed]
     ELSE [ok |-> TRUE,
           lines |-> [parsed EXCEPT ![i] =
                        [@ EXCEPT !.value = newValue,
                                  !.raw   = key \o <<EQ>> \o newValue]]]

\* Variant of updateEntry that takes the entry out and appends it again.
updateEntryReappend(parsed, key, newValue) ==
  LET i == FindIndex(parsed, key)
  IN IF i = 0
     THEN [ok |-> FALSE, lines |-> parsed]
     ELSE [ok |-> TRUE,
           lines |-> SubSeq(parsed, 1, i - 1) \o SubSeq(parsed, i + 1, Len(parsed))
                       \o <<[parsed[i] EXCEPT
                               !.value     = newValue,
                               !.encrypted = StartsWith(newValue, EncPrefix),
                               !.raw       = key \o <<EQ>> \o newValue]>>]

updateEntry(parsed, key, newValue) ==
  LET i == FindIndex(parsed, key)
  IN IF i = 0
     THEN [ok |-> FALSE, lines |-> parsed]
     ELSE [ok |-> TRUE,
           lines |-> [parsed EXCEPT ![i] =
                        [@ EXCEPT !.value     = newValue,
                                  !.encrypted = StartsWith(newValue, EncPrefix),
                                  !.raw       = key \o <<EQ>> \o newValue]]]

\* parsed.lines.splice(index, 1)
Splice1(lines, index) == SubSeq(lines, 1, index - 1) \o SubSeq(lines, index + 1, Len(lines))

\* Variant of deleteEntry that splices before it tests the index: with
\* index -1, splice(-1, 1) removes the last line and the call then throws.
deleteEntrySpliceFirst(parsed, key) ==
  LET index == FindIndex(parsed, key)
  IN IF index = 0
     THEN [ok |-> FALSE, lines |-> SubSeq(parsed, 1, Len(parsed) - 1)]
     ELSE [ok |-> TRUE, lines |-> Splice1(parsed, index)]

\* Variant of deleteEntry that takes a comment line just above the entry
\* with it.
deleteEntryWithComment(parsed, key) ==
  LET index == FindIndex(parsed, key)
  IN IF index = 0
     THEN [ok |-> FALSE, lines |-> parsed]
     ELSE IF index > 1 /\ parsed[index - 1].type = "comment"
          THEN [ok |-> TRUE, lines |-> Splice1(Splice1(parsed, index), index - 1)]
          ELSE [ok |-> TRUE, lines |-> Splice1(parsed, index)]

deleteEntry(parsed, key) ==
  LET index == FindIndex(parsed, key)
  IN IF index = 0
     THEN [ok |-> FALSE, lines |-> parsed]
     ELSE [ok |-> TRUE, lines |-> Splice1(parsed, index)]

\* isValidKey: /^[A-Za-z_][A-Za-z0-9_]*$/
Letters == {"A", "B", "C", "D", "E", "F", "G", "H", "I", "J", "K", "L", "M",
            "N", "O", "P", "Q", "R", "S", "T", "U", "V", "W", "X", "Y", "Z",
            "a", "b", "c", "d", "e", "f", "g", "h", "i", "j", "k", "l", "m",
            "n", "o", "p", "q", "r", "s", "t", "u", "v", "w", "x", "y", "z"}
Digits == {"0", "1", "2", "3", "4", "5", "6", "7", "8", "9"}
isValidKey(key) ==
  /\ Len(key) >= 1
  /\ key[1] \in Letters \cup {"_"}
  /\ \A i \in 2..Len(key) : key[i] \in Letters \cup Digits \cup {"_"}

\* ------------------------------------------------------------------------
\* Inputs
\* ------------------------------------------------------------------------
MaxLines == 2
MaxOps == 2

\* Lines a .env file is made of.
LinePool ==
  { <<"A", " ", "=", " ", "1">>,
    <<"B", "=", SQ, "q", SQ>>,
    <<"A", "=", DQ>> \o EncPrefix \o <<"a", "b", "c", "1", "2", "3", DQ>>,
    <<" ", "#", " ", "n", "o", "t", "e">>,
    <<>>,
    <<"j", "u", "n", "k">> }

\* The example file of the specification's testable properties.
ExampleText ==
  <<"#", " ", "c", "o", "m", "m", "e", "n", "t", LF, "A", "=", "1", LF, LF,
    "B", "=", DQ, "h", "a", "s", " ", "s", "p", "a", "c", "e", DQ, LF>>

LineSeqs == UNION {[1..n -> LinePool] : n \in 1..MaxLines}
InitTexts == {Join(ls) : ls \in LineSeqs} \cup {ExampleText}

Keys == {<<"A">>, <<"B">>}

SecretValue == <<"s", "e", "c", "r", "e", "t", " ", "v", "a", "l", "u", "e">>

Values ==
  { <<"p", "l", "a", "i", "n">>,
    EncPrefix \o <<"a", "b", "c", "1", "2", "3">>,
    <<"s", "e", "c", "r", "e", "t", " ", "v", "a", "l", "u", "e">>,
    <<"a", DQ, "b">> }

\* ------------------------------------------------------------------------
\* The store driven as a library: one text is parsed, the document is
\* mutated by a bounded number of calls, and written.
\* ------------------------------------------------------------------------
VARIABLES
  text,     \* the file content
  parsed,   \* parsed.lines of the document in memory
  pc,       \* "start" (nothing read), "loaded", "saved"
  source,   \* the content the document was parsed from
  loaded,   \* parsed.lines as parseEnvFile returned them
  before,   \* parsed.lines when the latest mutator was called
  call,     \* the latest mutator call: [op, key, value, ok]
  ops       \* number of mutator calls made

\* The key routes of server/index.js over one .env file of the current folder.
VARIABLES
  disk,        \* the file: [exists, content]
  diskBefore,  \* the file when the latest request arrived
  req,         \* the latest request and its answer: [route, key, value, status]
  reqs         \* number of requests served

\* The parser and the serializer applied to one string.
VARIABLES
  input,    \* the string: a file content, or the new value of an entry
  stage,    \* "new", "parsed" or "written"
  result,   \* the lines parseEnvFile returns for input
  emitted   \* the content written after updateEntry(doc, "B", input)

\* Edit requests in flight at the server: received, and waiting for the event
\* loop to run their handler.  The file they edit is disk.
VARIABLES
  queue,    \* requests received and not yet handled, in order of arrival
  served    \* requests handled, in order, each with what its handler
            \* loaded, answered and left in the file

\* The page of public/app.js and the folders the server reads.
VARIABLES
  tree,           \* the folders on disk: folder -> file name -> [exists, content]
  cwd,            \* app.locals.cwd and state.cwd
  currentFile,    \* state.currentFile
  entries,        \* state.entries
  visibleValues,  \* state.visibleValues
  toggledOn       \* keys whose value the user switched to shown since their
                  \* row last appeared in the table

\* The recent-folders list of the folder service, kept in config.json.
VARIABLES
  recent,    \* config.recentFolders, as stored
  lastCall,  \* the latest addRecentFolder call: [path, existed, found, lastExisting]
  calls      \* number of addRecentFolder calls made directly

\* Requests of the page that are on their way: sent by a handler that
\* awaits the answer, answered by the server, or not yet.
VARIABLES
  fetches,  \* the requests awaited: [id, kind, name, answered, ok, data, files]
  sent      \* number of requests sent so far

\* The routes that take a file name, over the files of the current folder.
VARIABLES
  dir,        \* file name -> [exists, content]
  dirBefore,  \* folder when the latest request arrived
  fileReq,       \* the latest request and its answer: [route, filename, status, error]
  touched,       \* the files read, written or encrypted so far: [name, how]
  asked          \* number of requests served

storeVars == <<text, parsed, pc, source, loaded, before, call, ops>>
httpVars == <<disk, diskBefore, req, reqs>>
textVars == <<input, stage, result, emitted>>
queueVars == <<queue, served>>
uiVars == <<tree, cwd, currentFile, entries, visibleValues, toggledOn>>
recentVars == <<recent, lastCall, calls>>
fetchVars == <<fetches, sent>>
fileVars == <<dir, dirBefore, fileReq, touched, asked>>
vars == <<text, parsed, pc, source, loaded, before, call, ops,
          disk, diskBefore, req, reqs,
          input, stage, result, emitted,
          queue, served,
          tree, cwd, currentFile, entries, visibleValues, toggledOn,
          recent, lastCall, calls,
          fetches, sent,
          dir, dirBefore, fileReq, touched, asked>>

\* What the actions of one part leave alone.
outsideStore == <<httpVars, textVars, queueVars, uiVars, recentVars, fetchVars, fileVars>>
outsideHttp == <<storeVars, textVars, queueVars, uiVars, recentVars, fetchVars, fileVars>>
outsideText == <<storeVars, httpVars, queueVars, uiVars, recentVars, fetchVars, fileVars>>
outsideQueue == <<storeVars, textVars, diskBefore, req, reqs, uiVars, recentVars, fetchVars, fileVars>>
outsideUi == <<storeVars, httpVars, textVars, queueVars, recentVars, fetchVars, fileVars>>
outsideCwd == <<storeVars, httpVars, textVars,
                currentFile, entries, visibleValues, toggledOn, calls, fetchVars,
                fileVars>>
outsideRecent == <<storeVars, httpVars, textVars, queueVars, uiVars, fetchVars,
                   fileVars>>
outsideFiles == <<storeVars, httpVars, textVars, queueVars, uiVars, recentVars,
                  fetchVars>>
outsideFetch == <<storeVars, httpVars, textVars, queueVars, toggledOn, calls, fileVars>>

NoCall == [op |-> "none", key |-> <<>>, value |-> <<>>, ok |-> TRUE]

NoFile == [exists |-> FALSE, content |-> <<>>]
File(content) == [exists |-> TRUE, content |-> content]

\* A JSON body member: a string, absent, or of another type.
Str(s) == [t |-> "string", s |-> s]
Undefined == [t |-> "undefined", s |-> <<>>]
Number == [t |-> "number", s |-> <<>>]

NoReq == [route |-> "none", key |-> Undefined, value |-> Undefined, status |-> 0]

StoreIdle ==
  /\ text = <<>>
  /\ parsed = <<>>
  /\ pc = "start"
  /\ source = <<>>
  /\ loaded = <<>>
  /\ before = <<>>
  /\ call = NoCall
  /\ ops = 0

HttpIdle ==
  /\ disk = NoFile
  /\ diskBefore = NoFile
  /\ req = NoReq
  /\ reqs = 0

TextIdle ==
  /\ input = <<>>
  /\ stage = "new"
  /\ result = <<>>
  /\ emitted = <<>>

QueueIdle ==
  /\ queue = <<>>
  /\ served = <<>>

UiIdle ==
  /\ tree = <<>>
  /\ cwd = ""
  /\ currentFile = "null"
  /\ entries = <<>>
  /\ visibleValues = {}
  /\ toggledOn = {}

\* path: the resolved path of the call; existed: what existsSync answered;
\* found: the stored list when the call began; lastExisting: the resolved path
\* of the latest call whose path existed.
NoRecentCall == [path |-> "", existed |-> FALSE, found |-> <<>>, lastExisting |-> ""]

RecentIdle ==
  /\ recent = <<>>
  /\ lastCall = NoRecentCall
  /\ calls = 0

FetchIdle ==
  /\ fetches = {}
  /\ sent = 0

NoFileReq == [route |-> "none", filename |-> Undefined, status |-> 0, error |-> ""]

FilesIdle ==
  /\ dir = <<>>
  /\ dirBefore = <<>>
  /\ fileReq = NoFileReq
  /\ touched = {}
  /\ asked = 0

Init ==
  /\ text \in InitTexts
  /\ parsed = <<>>
  /\ pc = "start"
  /\ source = text
  /\ loaded = <<>>
  /\ before = <<>>
  /\ call = NoCall
  /\ ops = 0
  /\ HttpIdle
  /\ TextIdle
  /\ QueueIdle
  /\ UiIdle
  /\ RecentIdle
  /\ FetchIdle
  /\ FilesIdle

ParseEnvFile ==
  /\ pc = "start"
  /\ parsed' = parseEnvFile(text)
  /\ pc' = "loaded"
  /\ loaded' = parsed'
  /\ before' = parsed'
  /\ UNCHANGED <<text, source, call, ops>>
  /\ UNCHANGED outsideStore

AddEntry == \E key \in Keys, value \in Values :
  LET r == addEntry(parsed, key, value)
  IN /\ pc = "loaded"
     /\ ops < MaxOps
     /\ before' = parsed
     /\ parsed' = r.lines
     /\ call' = [op |-> "add", key |-> key, value |-> value, ok |-> r.ok]
     /\ ops' = ops + 1
     /\ UNCHANGED <<text, pc, source, loaded>>
     /\ UNCHANGED outsideStore

UpdateEntry == \E key \in Keys, value \in Values :
  LET r == updateEntry(parsed, key, value)
  IN /\ pc = "loaded"
     /\ ops < MaxOps
     /\ before' = parsed
     /\ parsed' = r.lines
     /\ call' = [op |-> "update", key |-> key, value |-> value, ok |-> r.ok]
     /\ ops' = ops + 1
     /\ UNCHANGED <<text, pc, source, loaded>>
     /\ UNCHANGED outsideStore

DeleteEntry == \E key \in Keys :
  LET r == deleteEntry(parsed, key)
  IN /\ pc = "loaded"
     /\ ops < MaxOps
     /\ before' = parsed
     /\ parsed' = r.lines
     /\ call' = [op |-> "delete", key |-> key, value |-> <<>>, ok |-> r.ok]
     /\ ops' = ops + 1
     /\ UNCHANGED <<text, pc, source, loaded>>
     /\ UNCHANGED outsideStore

WriteEnvFile ==
  /\ pc = "loaded"
  /\ text' = writeEnvFile(parsed)
  /\ pc' = "saved"
  /\ UNCHANGED <<parsed, source, loaded, before, call, ops>>
  /\ UNCHANGED outsideStore

Next == ParseEnvFile \/ AddEntry \/ UpdateEntry \/ DeleteEntry \/ WriteEnvFile

Spec == Init /\ [][Next]_vars

\* ------------------------------------------------------------------------
\* The key routes: each request is one synchronous handler, load -> mutate
\* -> persist, answered 200 or 400.
\* ------------------------------------------------------------------------
MaxReqs == 2

HttpTexts ==
  { ExampleText,
    Join(<< <<"A", "=", DQ>> \o EncPrefix \o <<"a", "b", "c", "1", "2", "3", DQ>>,
            <<"B", " ", "=", " ", "2">>,
            <<"C", "=", SQ, "q", SQ>> >>),
    <<>> }

BodyKeys == {Str(k) : k \in Keys \cup {<<>>, <<"9", "A">>}} \cup {Undefined}
\* A value of two lines, the second of which reads as an entry.
TwoLineValue == <<"x", LF, "B", EQ, "1">>

BodyValues == {Str(v) : v \in Values \cup {<<>>, TwoLineValue}} \cup {Undefined, Number}

InitHttp ==
  /\ disk \in {File(t) : t \in HttpTexts} \cup {NoFile}
  /\ diskBefore = disk
  /\ req = NoReq
  /\ reqs = 0
  /\ StoreIdle
  /\ TextIdle
  /\ QueueIdle
  /\ UiIdle
  /\ RecentIdle
  /\ FetchIdle
  /\ FilesIdle

\* Variant of AddKeyResult without the isValidKey test.
AddKeyResultUnvalidated(file, key, value) ==
  IF key.t # "string" \/ key.s = <<>> THEN [status |-> 400, file |-> file]
  ELSE IF ~file.exists THEN [status |-> 400, file |-> file]
  ELSE LET lines == parseEnvFile(file.content)
           v == IF value.t = "undefined" \/ (value.t = "string" /\ value.s = <<>>)
                THEN Str(<<>>) ELSE value
       IN IF FindIndex(lines, key.s) # 0 THEN [status |-> 400, file |-> file]
          ELSE IF v.t # "string" THEN [status |-> 400, file |-> file]
          ELSE [status |-> 200,
                file |-> File(writeEnvFile(addEntry(lines, key.s, v.s).lines))]

\* app.post('/api/files/:filename/keys'): what the handler answers and writes.
AddKeyResult(file, key, value) ==
  IF key.t # "string" \/ key.s = <<>> THEN [status |-> 400, file |-> file]
  ELSE IF ~isValidKey(key.s) THEN [status |-> 400, file |-> file]
  ELSE IF ~file.exists THEN [status |-> 400, file |-> file]
  ELSE LET lines == parseEnvFile(file.content)
           \* value || ''
           v == IF value.t = "undefined" \/ (value.t = "string" /\ value.s = <<>>)
                THEN Str(<<>>) ELSE value
       IN IF FindIndex(lines, key.s) # 0 THEN [status |-> 400, file |-> file]
          \* value.startsWith is not a function
          ELSE IF v.t # "string" THEN [status |-> 400, file |-> file]
          ELSE [status |-> 200,
                file |-> File(writeEnvFile(addEntry(lines, key.s, v.s).lines))]

\* app.put('/api/files/:filename/keys/:key')
UpdateKeyResult(file, key, value) ==
  IF value.t # "string" THEN [status |-> 400, file |-> file]
  ELSE IF ~file.exists THEN [status |-> 400, file |-> file]
  ELSE LET r == updateEntry(parseEnvFile(file.content), key.s, value.s)
       IN IF ~r.ok THEN [status |-> 400, file |-> file]
          ELSE [status |-> 200, file |-> File(writeEnvFile(r.lines))]

\* app.delete('/api/files/:filename/keys/:key')
DeleteKeyResult(file, key) ==
  IF ~file.exists THEN [status |-> 400, file |-> file]
  ELSE LET r == deleteEntry(parseEnvFile(file.content), key.s)
       IN IF ~r.ok THEN [status |-> 400, file |-> file]
          ELSE [status |-> 200, file |-> File(writeEnvFile(r.lines))]

AddKeyRoute == \E key \in BodyKeys, value \in BodyValues :
  LET a == AddKeyResult(disk, key, value)
  IN /\ reqs < MaxReqs
     /\ reqs' = reqs + 1
     /\ diskBefore' = disk
     /\ disk' = a.file
     /\ req' = [route |-> "add", key |-> key, value |-> value, status |-> a.status]
     /\ UNCHANGED outsideHttp

UpdateKeyRoute == \E k \in Keys, value \in BodyValues :
  LET a == UpdateKeyResult(disk, Str(k), value)
  IN /\ reqs < MaxReqs
     /\ reqs' = reqs + 1
     /\ diskBefore' = disk
     /\ disk' = a.file
     /\ req' = [route |-> "update", key |-> Str(k), value |-> value, status |-> a.status]
     /\ UNCHANGED outsideHttp

DeleteKeyRoute == \E k \in Keys :
  LET a == DeleteKeyResult(disk, Str(k))
  IN /\ reqs < MaxReqs
     /\ reqs' = reqs + 1
     /\ diskBefore' = disk
     /\ disk' = a.file
     /\ req' = [route |-> "delete", key |-> Str(k), value |-> Undefined, status |-> a.status]
     /\ UNCHANGED outsideHttp

NextHttp == AddKeyRoute \/ UpdateKeyRoute \/ DeleteKeyRoute

SpecHttp == InitHttp /\ [][NextHttp]_vars

\* ------------------------------------------------------------------------
\* Edit requests in flight together.  A request is received at any time and
\* queued; the event loop runs one handler at a time, and a handler reads,
\* mutates and writes the file with synchronous calls before it returns.
\* ------------------------------------------------------------------------
MaxInFlight == 2

QueueValues == {<<"p", "l", "a", "i", "n">>, SecretValue}

EditRequests ==
  {[route |-> "add", key |-> Str(k), value |-> Str(v)] : k \in Keys, v \in QueueValues}
    \cup
  {[route |-> "update", key |-> Str(k), value |-> Str(v)] : k \in Keys, v \in QueueValues}
    \cup
  {[route |-> "delete", key |-> Str(k), value |-> Undefined] : k \in Keys}

\* Variant of readFileSync that returns the content the file had when the
\* request was received.
readFileSyncAtArrival(current, arrival) == arrival

\* fs.readFileSync in the handler: the content of the file at the moment of
\* the call, whatever it was when the request was received.
readFileSync(current, arrival) == current

\* The handler of a request on the file it loads.
RouteResult(r, file) ==
  IF r.route = "add" THEN AddKeyResult(file, r.key, r.value)
  ELSE IF r.route = "update" THEN UpdateKeyResult(file, r.key, r.value)
  ELSE DeleteKeyResult(file, r.key)

InitQueue ==
  /\ disk \in {File(t) : t \in HttpTexts}
  /\ diskBefore = disk
  /\ req = NoReq
  /\ reqs = 0
  /\ queue = <<>>
  /\ served = <<>>
  /\ StoreIdle
  /\ TextIdle
  /\ UiIdle
  /\ RecentIdle
  /\ FetchIdle
  /\ FilesIdle

\* A request is received while others may be waiting.
Arrive == \E r \in EditRequests :
  /\ Len(queue) + Len(served) < MaxInFlight
  /\ queue' = Append(queue, [route |-> r.route, key |-> r.key, value |-> r.value,
                             seen |-> disk, behind |-> Len(served)])
  /\ UNCHANGED <<disk, served>>
  /\ UNCHANGED outsideQueue

\* The event loop runs the handler of the oldest waiting request to its end.
Handle ==
  /\ queue # <<>>
  /\ LET r == Head(queue)
         file == readFileSync(disk, r.seen)
         a == RouteResult(r, file)
     IN /\ disk' = IF a.status = 200 THEN a.file ELSE disk
        /\ served' = Append(served, [route |-> r.route, key |-> r.key,
                                     value |-> r.value, behind |-> r.behind,
                                     loaded |-> file, status |-> a.status,
                                     wrote |-> disk'])
  /\ queue' = Tail(queue)
  /\ UNCHANGED outsideQueue

NextQueue == Arrive \/ Handle

\* The oldest waiting request leaves the queue: its handler ran.  Within
\* NextQueue only a Handle step does this.
Dequeue == queue # <<>> /\ queue' = Tail(queue)

\* The event loop runs a waiting handler eventually.
SpecQueue == InitQueue /\ [][NextQueue]_vars /\ WF_queue(Dequeue)

\* ------------------------------------------------------------------------
\* The page: the handlers of public/app.js, each with the request it sends
\* and the answer of the server.  The folders hold no .env.keys, so nothing
\* is decrypted.
\* ------------------------------------------------------------------------
Null == [t |-> "null", s |-> <<>>]

Folders == {"/a", "/b"}
FileNames == {".env", ".env.local"}

\* The content of a file made by POST /api/files.
NewFileText == <<"#", " ", "E", "n", "v", "i", "r", "o", "n", "m", "e", "n", "t", " ", "v", "a", "r", "i", "a", "b", "l", "e", "s", LF>>

InitTree ==
  [d \in Folders |->
     [f \in FileNames |->
        IF d = "/a" THEN (IF f = ".env" THEN File(ExampleText) ELSE File(<<>>))
        ELSE NoFile]]

UiKeys == Keys
UiValues == {EncPrefix \o <<"a", "b", "c", "1", "2", "3">>}

\* Names typed in the New File form.
NewFileNames == {".env"}

\* scanEnvFiles: '.env' first, then alphabetically.
scanEnvFiles(folder) ==
  (IF folder[".env"].exists THEN <<".env">> ELSE <<>>)
    \o (IF folder[".env.local"].exists THEN <<".env.local">> ELSE <<>>)

\* GET /api/files/:filename: the entries of the answer.
FetchEntries(file) ==
  LET es == getEntries(parseEnvFile(file.content))
  IN [i \in 1..Len(es) |->
        [key |-> es[i].key, value |-> es[i].value, encrypted |-> es[i].encrypted,
         decryptedValue |-> IF es[i].encrypted THEN Null ELSE Str(es[i].value)]]

\* state.entries.filter(e => e.key !== key)
FilterOut(es, key) == SelectSeq(es, LAMBDA e : e.key # key)

EntryKeys == {entries[i].key : i \in 1..Len(entries)}

\* The page after init(): the first file of the folder is selected.
InitUi ==
  /\ tree = InitTree
  /\ cwd = "/a"
  /\ currentFile = ".env"
  /\ entries = FetchEntries(InitTree["/a"][".env"])
  /\ visibleValues = {}
  /\ toggledOn = {}
  /\ StoreIdle
  /\ HttpIdle
  /\ TextIdle
  /\ QueueIdle
  /\ RecentIdle
  /\ FetchIdle
  /\ FilesIdle

selectFile == \E filename \in FileNames :
  /\ tree[cwd][filename].exists
  /\ currentFile # filename
  /\ currentFile' = filename
  /\ visibleValues' = {}
  /\ entries' = FetchEntries(tree[cwd][filename])
  /\ toggledOn' = {}
  /\ UNCHANGED <<tree, cwd>>
  /\ UNCHANGED outsideUi

toggleVisibility == \E key \in EntryKeys :
  /\ visibleValues' = IF key \in visibleValues
                      THEN visibleValues \ {key}
                      ELSE visibleValues \cup {key}
  /\ toggledOn' = IF key \in visibleValues
                  THEN toggledOn \ {key}
                  ELSE toggledOn \cup {key}
  /\ UNCHANGED <<tree, cwd, currentFile, entries>>
  /\ UNCHANGED outsideUi

confirmDelete == \E key \in EntryKeys :
  LET a == DeleteKeyResult(tree[cwd][currentFile], Str(key))
  IN /\ currentFile # "null"
     /\ tree' = [tree EXCEPT ![cwd][currentFile] = a.file]
     /\ entries' = IF a.status = 200 THEN FilterOut(entries, key) ELSE entries
     /\ toggledOn' = IF a.status = 200 THEN toggledOn \ {key} ELSE toggledOn
     /\ UNCHANGED <<cwd, currentFile, visibleValues>>
     /\ UNCHANGED outsideUi

handleAddKey == \E key \in UiKeys, value \in UiValues :
  LET a == AddKeyResult(tree[cwd][currentFile], Str(key), Str(value))
  IN /\ currentFile # "null"
     /\ tree' = [tree EXCEPT ![cwd][currentFile] = a.file]
     /\ entries' = IF a.status = 200
                   THEN Append(entries, [key |-> key, value |-> value,
                                         encrypted |-> FALSE,
                                         decryptedValue |-> Str(value)])
                   ELSE entries
     /\ toggledOn' = IF a.status = 200 THEN toggledOn \ {key} ELSE toggledOn
     /\ UNCHANGED <<cwd, currentFile, visibleValues>>
     /\ UNCHANGED outsideUi

handleNewFile == \E filename \in NewFileNames :
  /\ ~tree[cwd][filename].exists
  /\ tree' = [tree EXCEPT ![cwd][filename] = File(NewFileText)]
  /\ currentFile' = filename
  /\ visibleValues' = {}
  /\ entries' = FetchEntries(tree'[cwd][filename])
  /\ toggledOn' = {}
  /\ UNCHANGED cwd
  /\ UNCHANGED outsideUi

handleFolderChange == \E folderPath \in Folders :
  LET files == scanEnvFiles(tree[folderPath])
  IN /\ cwd' = folderPath
     /\ visibleValues' = {}
     /\ toggledOn' = {}
     /\ currentFile' = IF files = <<>> THEN "null" ELSE files[1]
     /\ entries' = IF files = <<>> THEN <<>>
                   ELSE FetchEntries(tree[folderPath][files[1]])
     /\ UNCHANGED tree
     /\ UNCHANGED outsideUi

NextUi ==
  \/ selectFile
  \/ toggleVisibility
  \/ confirmDelete
  \/ handleAddKey
  \/ handleNewFile
  \/ handleFolderChange

SpecUi == InitUi /\ [][NextUi]_vars

\* ------------------------------------------------------------------------
\* The folder service: the recent-folders list of config.json
\* ------------------------------------------------------------------------
maxRecent == 10

\* A path that names nothing on disk.
MissingFolder == "/none"

\* fs.existsSync
existsSync(p) == p # MissingFolder

\* path.resolve on an absolute path: a trailing separator is dropped.
resolve(p) == IF p = "/a/" THEN "/a" ELSE IF p = "/b/" THEN "/b" ELSE p

\* list.slice(0, n)
SliceTo(list, n) == SubSeq(list, 1, IF Len(list) < n THEN Len(list) ELSE n)

\* Variant of addRecentFolder that does not remove the path from the list.
addRecentFolderNoFilter(list, folderPath) ==
  LET absPath == resolve(folderPath)
  IN IF ~existsSync(absPath) THEN list
     ELSE SliceTo(<<[path |-> absPath]>> \o list, maxRecent)

\* config.recentFolders after addRecentFolder(folderPath) found it as list.
addRecentFolder(list, folderPath) ==
  LET absPath == resolve(folderPath)
  IN IF ~existsSync(absPath) THEN list
     ELSE SliceTo(<<[path |-> absPath]>>
                    \o SelectSeq(list, LAMBDA item : item.path # absPath),
                  maxRecent)

\* ------------------------------------------------------------------------
\* Edit requests and folder-change requests in flight together: the server
\* keeps one current folder, app.locals.cwd, for all requests.
\* ------------------------------------------------------------------------
MaxCwdReqs == 3

ServerTree ==
  [d \in Folders |->
     [f \in FileNames |->
        IF f # ".env" THEN NoFile
        ELSE IF d = "/a" THEN File(ExampleText)
        ELSE File(<<"A", EQ, "2">>)]]

CwdRequests ==
  { [route |-> "add", key |-> Str(<<"C">>), value |-> Str(<<"p", "l", "a", "i", "n">>),
     path |-> ""],
    [route |-> "update", key |-> Str(<<"A">>), value |-> Str(SecretValue), path |-> ""],
    [route |-> "delete", key |-> Str(<<"A">>), value |-> Undefined, path |-> ""] }
    \cup
  { [route |-> "folder", key |-> Undefined, value |-> Undefined, path |-> p] :
      p \in {"/a", "/b/", MissingFolder} }

\* Variant of WritePath that joins the name to the folder that was current
\* when the request was received.
WritePathAtArrival(filepath, arrival) == arrival

\* The path given to writeEnvFile: the constant filepath of the handler,
\* the one given to parseEnvFile.
WritePath(filepath, arrival) == filepath

\* The paths whose file differs between two trees.
ChangedPaths(t1, t2) ==
  {pth \in Folders \X FileNames : t1[pth[1]][pth[2]] # t2[pth[1]][pth[2]]}

InitCwd ==
  /\ tree = ServerTree
  /\ cwd = "/a"
  /\ queue = <<>>
  /\ served = <<>>
  /\ recent = <<>>
  /\ lastCall = NoRecentCall
  /\ calls = 0
  /\ currentFile = "null"
  /\ entries = <<>>
  /\ visibleValues = {}
  /\ toggledOn = {}
  /\ StoreIdle
  /\ HttpIdle
  /\ TextIdle
  /\ FetchIdle
  /\ FilesIdle

\* A request is received while others may be waiting.
Receive == \E r \in CwdRequests :
  /\ Len(queue) + Len(served) < MaxCwdReqs
  /\ queue' = Append(queue, [route |-> r.route, key |-> r.key, value |-> r.value,
                             path |-> r.path, cwdSeen |-> cwd])
  /\ UNCHANGED <<served, tree, cwd, recent, lastCall>>
  /\ UNCHANGED outsideCwd

\* The handler of a key route, run to its end on .env of the current folder.
ServeEdit ==
  /\ queue # <<>>
  /\ Head(queue).route # "folder"
  /\ LET r == Head(queue)
         filepath == <<cwd, ".env">>
         a == RouteResult(r, tree[filepath[1]][filepath[2]])
         target == WritePath(filepath, <<r.cwdSeen, ".env">>)
     IN /\ tree' = IF a.status = 200
                   THEN [tree EXCEPT ![target[1]][target[2]] = a.file]
                   ELSE tree
        /\ served' = Append(served, [route |-> r.route, cwdSeen |-> r.cwdSeen,
                                     read |-> filepath, status |-> a.status,
                                     wrote |-> ChangedPaths(tree, tree')])
  /\ queue' = Tail(queue)
  /\ UNCHANGED <<cwd, recent, lastCall>>
  /\ UNCHANGED outsideCwd

\* app.post('/api/folder/change')
ChangeFolderRoute ==
  /\ queue # <<>>
  /\ Head(queue).route = "folder"
  /\ LET r == Head(queue)
         valid == existsSync(resolve(r.path))
     IN /\ cwd' = IF valid THEN resolve(r.path) ELSE cwd
        /\ recent' = IF valid THEN addRecentFolder(recent, resolve(r.path)) ELSE recent
        /\ lastCall' = IF valid
                       THEN [path |-> resolve(r.path), existed |-> TRUE,
                             found |-> recent, lastExisting |-> resolve(r.path)]
                       ELSE lastCall
        /\ served' = Append(served, [route |-> r.route, cwdSeen |-> r.cwdSeen,
                                     read |-> <<"", "">>,
                                     status |-> IF valid THEN 200 ELSE 400,
                                     wrote |-> {}])
  /\ queue' = Tail(queue)
  /\ UNCHANGED tree
  /\ UNCHANGED outsideCwd

NextCwd == Receive \/ ServeEdit \/ ChangeFolderRoute

SpecCwd == InitCwd /\ [][NextCwd]_vars

\* ------------------------------------------------------------------------
\* The page with its requests on their way: a handler runs to its await,
\* the server answers, and the handler resumes when the answer arrives.
\* Answers arrive in any order.
\* ------------------------------------------------------------------------
MaxFetches == 3

\* The entries the page shows for an answer: data.entries, or [] after an
\* error.
Shown(fetch) == IF fetch.ok THEN fetch.data ELSE <<>>

InitFetch ==
  /\ tree = InitTree
  /\ cwd = "/a"
  /\ currentFile = ".env"
  /\ entries = FetchEntries(InitTree["/a"][".env"])
  /\ visibleValues = {}
  /\ toggledOn = {}
  /\ fetches = {}
  /\ sent = 0
  /\ recent = <<>>
  /\ lastCall = NoRecentCall
  /\ calls = 0
  /\ StoreIdle
  /\ HttpIdle
  /\ TextIdle
  /\ QueueIdle
  /\ FilesIdle

\* selectFile up to its await: the file is made current and its content
\* is asked for.
selectFileSend == \E filename \in FileNames :
  /\ sent < MaxFetches
  /\ tree[cwd][filename].exists
  /\ currentFile # filename
  /\ currentFile' = filename
  /\ visibleValues' = {}
  /\ fetches' = fetches \cup {[id |-> sent + 1, kind |-> "file", name |-> filename,
                               answered |-> FALSE, ok |-> FALSE,
                               data |-> <<>>, files |-> <<>>]}
  /\ sent' = sent + 1
  /\ UNCHANGED <<tree, cwd, entries, recent, lastCall>>
  /\ UNCHANGED outsideFetch

\* handleFolderChange up to its await.
handleFolderChangeSend == \E folderPath \in Folders :
  /\ sent < MaxFetches
  /\ fetches' = fetches \cup {[id |-> sent + 1, kind |-> "folder", name |-> folderPath,
                               answered |-> FALSE, ok |-> FALSE,
                               data |-> <<>>, files |-> <<>>]}
  /\ sent' = sent + 1
  /\ UNCHANGED <<tree, cwd, currentFile, entries, visibleValues, recent, lastCall>>
  /\ UNCHANGED outsideFetch

\* GET /api/files/:filename for a request on its way.
GetFileRoute == \E fetch \in fetches :
  /\ fetch.kind = "file"
  /\ ~fetch.answered
  /\ LET file == tree[cwd][fetch.name]
     IN fetches' = (fetches \ {fetch}) \cup
          {[fetch EXCEPT !.answered = TRUE,
                         !.ok = file.exists,
                         !.data = IF file.exists THEN FetchEntries(file) ELSE <<>>]}
  /\ UNCHANGED <<tree, cwd, currentFile, entries, visibleValues, sent, recent, lastCall>>
  /\ UNCHANGED outsideFetch

\* POST /api/folder/change for a request on its way.
FolderChangeAnswer == \E fetch \in fetches :
  /\ fetch.kind = "folder"
  /\ ~fetch.answered
  /\ cwd' = resolve(fetch.name)
  /\ recent' = addRecentFolder(recent, resolve(fetch.name))
  /\ lastCall' = [path |-> resolve(fetch.name), existed |-> TRUE,
                  found |-> recent, lastExisting |-> resolve(fetch.name)]
  /\ fetches' = (fetches \ {fetch}) \cup
       {[fetch EXCEPT !.answered = TRUE, !.ok = TRUE,
                      !.files = scanEnvFiles(tree[resolve(fetch.name)])]}
  /\ UNCHANGED <<tree, currentFile, entries, visibleValues, sent>>
  /\ UNCHANGED outsideFetch

\* selectFile after its await: the answer is put in the table.
selectFileResume == \E fetch \in fetches :
  /\ fetch.kind = "file"
  /\ fetch.answered
  /\ entries' = Shown(fetch)
  /\ fetches' = fetches \ {fetch}
  /\ UNCHANGED <<tree, cwd, currentFile, visibleValues, sent, recent, lastCall>>
  /\ UNCHANGED outsideFetch

\* handleFolderChange after its await, with the selectFile it calls for the
\* first file of the folder.
handleFolderChangeResume == \E fetch \in fetches :
  /\ fetch.kind = "folder"
  /\ fetch.answered
  /\ entries' = <<>>
  /\ visibleValues' = {}
  /\ currentFile' = IF fetch.files = <<>> THEN "null" ELSE fetch.files[1]
  /\ fetches' = (fetches \ {fetch}) \cup
       (IF fetch.files = <<>> THEN {}
        ELSE {[id |-> sent + 1, kind |-> "file", name |-> fetch.files[1],
               answered |-> FALSE, ok |-> FALSE, data |-> <<>>, files |-> <<>>]})
  /\ sent' = IF fetch.files = <<>> THEN sent ELSE sent + 1
  /\ UNCHANGED <<tree, cwd, recent, lastCall>>
  /\ UNCHANGED outsideFetch

NextFetch ==
  \/ selectFileSend
  \/ handleFolderChangeSend
  \/ GetFileRoute
  \/ FolderChangeAnswer
  \/ selectFileResume
  \/ handleFolderChangeResume

SpecFetch == InitFetch /\ [][NextFetch]_vars

\* ------------------------------------------------------------------------
\* The routes that take a file name: GET /api/files/:filename, the key
\* routes, encrypt, and POST /api/files, each one synchronous handler.
\* File names are strings of characters, so that startsWith is computed.
\* ------------------------------------------------------------------------
MaxFileReqs == 3

DotEnv == <<".", "e", "n", "v">>
DotEnvLocal == DotEnv \o <<".", "l">>
NotesFile == <<"n", "o", "t", "e", "s">>

FolderFiles == {DotEnv, DotEnvLocal, NotesFile}

InitFolder ==
  [n \in FolderFiles |->
     IF n = DotEnv THEN File(<<"A", EQ, "1">>)
     ELSE IF n = NotesFile THEN File(<<"t", "o", "d", "o">>)
     ELSE NoFile]

\* filename of the body of POST /api/files
BodyFilenames == {Str(n) : n \in FolderFiles \cup {<<>>}} \cup {Undefined, Number}

KeyRequests ==
  { [route |-> "add", key |-> Str(<<"B">>), value |-> Str(<<"p", "l", "a", "i", "n">>)],
    [route |-> "delete", key |-> Str(<<"A">>), value |-> Undefined] }

\* What dotenvx encrypt leaves in the file: the tool is outside the source,
\* and the model keeps only that the file is rewritten, with a key line first.
DotenvxEncrypt(content) == <<"K", EQ, "k", LF>> \o content

InitFiles ==
  /\ dir = InitFolder
  /\ dirBefore = InitFolder
  /\ fileReq = NoFileReq
  /\ touched = {}
  /\ asked = 0
  /\ StoreIdle
  /\ HttpIdle
  /\ TextIdle
  /\ QueueIdle
  /\ UiIdle
  /\ RecentIdle
  /\ FetchIdle

\* app.get('/api/files/:filename')
GetContentRoute == \E filename \in FolderFiles :
  LET allowed == StartsWith(filename, DotEnv)
      status == IF ~allowed THEN 400 ELSE IF dir[filename].exists THEN 200 ELSE 500
  IN /\ asked < MaxFileReqs
     /\ asked' = asked + 1
     /\ dirBefore' = dir
     /\ fileReq' = [route |-> "get", filename |-> Str(filename), status |-> status,
                  error |-> ""]
     /\ touched' = IF status = 200
                   THEN touched \cup {[name |-> filename, how |-> "read"]}
                   ELSE touched
     /\ UNCHANGED dir
     /\ UNCHANGED outsideFiles

\* app.post / app.put / app.delete on /api/files/:filename/keys
KeyRoute == \E filename \in FolderFiles, r \in KeyRequests :
  LET a == RouteResult(r, dir[filename])
  IN /\ asked < MaxFileReqs
     /\ asked' = asked + 1
     /\ dirBefore' = dir
     /\ fileReq' = [route |-> r.route, filename |-> Str(filename), status |-> a.status,
                  error |-> ""]
     /\ dir' = IF a.status = 200 THEN [dir EXCEPT ![filename] = a.file] ELSE dir
     /\ touched' = touched
          \cup (IF dir[filename].exists
                THEN {[name |-> filename, how |-> "read"]} ELSE {})
          \cup (IF a.status = 200
                THEN {[name |-> filename, how |-> "write"]} ELSE {})
     /\ UNCHANGED outsideFiles

\* app.post('/api/files/:filename/encrypt'): dotenvx succeeds or fails.
EncryptRoute == \E filename \in FolderFiles, done \in BOOLEAN :
  LET status == IF dir[filename].exists /\ done THEN 200 ELSE 500
  IN /\ asked < MaxFileReqs
     /\ asked' = asked + 1
     /\ dirBefore' = dir
     /\ fileReq' = [route |-> "encrypt", filename |-> Str(filename), status |-> status,
                  error |-> ""]
     /\ dir' = IF status = 200
                  THEN [dir EXCEPT ![filename] =
                          File(DotenvxEncrypt(dir[filename].content))]
                  ELSE dir
     /\ touched' = IF status = 200
                   THEN touched \cup {[name |-> filename, how |-> "encrypt"]}
                   ELSE touched
     /\ UNCHANGED outsideFiles

\* Variant of CreateFileResult without the existsSync test.
CreateFileResultOverwrite(files, filename) ==
  IF filename.t = "undefined" \/ (filename.t = "string" /\ filename.s = <<>>)
  THEN [status |-> 400, error |-> "Invalid filename", files |-> files]
  ELSE IF filename.t # "string"
  THEN [status |-> 500, error |-> "TypeError", files |-> files]
  ELSE IF ~StartsWith(filename.s, DotEnv)
  THEN [status |-> 400, error |-> "Invalid filename", files |-> files]
  ELSE [status |-> 200, error |-> "",
        files |-> [files EXCEPT ![filename.s] = File(NewFileText)]]

\* app.post('/api/files'): what the handler answers and leaves on disk.
\* A filename that is not a string has no startsWith: the throw is caught
\* and answered 500.
CreateFileResult(files, filename) ==
  IF filename.t = "undefined" \/ (filename.t = "string" /\ filename.s = <<>>)
  THEN [status |-> 400, error |-> "Invalid filename", files |-> files]
  ELSE IF filename.t # "string"
  THEN [status |-> 500, error |-> "TypeError", files |-> files]
  ELSE IF ~StartsWith(filename.s, DotEnv)
  THEN [status |-> 400, error |-> "Invalid filename", files |-> files]
  ELSE IF files[filename.s].exists
  THEN [status |-> 400, error |-> "File already exists", files |-> files]
  ELSE [status |-> 200, error |-> "",
        files |-> [files EXCEPT ![filename.s] = File(NewFileText)]]

CreateFileRoute == \E filename \in BodyFilenames :
  LET a == CreateFileResult(dir, filename)
  IN /\ asked < MaxFileReqs
     /\ asked' = asked + 1
     /\ dirBefore' = dir
     /\ fileReq' = [route |-> "create", filename |-> filename, status |-> a.status,
                  error |-> a.error]
     /\ dir' = a.files
     /\ UNCHANGED touched
     /\ UNCHANGED outsideFiles

NextFiles == GetContentRoute \/ KeyRoute \/ EncryptRoute \/ CreateFileRoute

SpecFiles == InitFiles /\ [][NextFiles]_vars

\* ------------------------------------------------------------------------
\* The recent-folders list under a sequence of addRecentFolder calls. The
\* list starts as earlier calls left it: empty, one short of full, or full.
\* ------------------------------------------------------------------------
MaxCalls == 3

OpenedBefore ==
  <<"/f1", "/f2", "/f3", "/f4", "/f5", "/f6", "/f7", "/f8", "/f9", "/f10">>

\* config.recentFolders after the folders OpenedBefore[n], ..., OpenedBefore[1]
\* were added in that order.
RecentAfter(n) == [i \in 1..n |-> [path |-> OpenedBefore[i]]]

InitRecents == {RecentAfter(n) : n \in {0, maxRecent - 1, maxRecent}}

\* folderPath of a call: in the list, at its end, new, with a trailing
\* separator, and one that does not exist.
CallPaths == {"/f1", "/f10", "/f11", "/a/", MissingFolder}

InitRecent ==
  /\ recent \in InitRecents
  /\ lastCall = [NoRecentCall EXCEPT
                   !.lastExisting = IF recent = <<>> THEN "" ELSE recent[1].path]
  /\ calls = 0
  /\ StoreIdle
  /\ HttpIdle
  /\ TextIdle
  /\ QueueIdle
  /\ UiIdle
  /\ FetchIdle
  /\ FilesIdle

AddRecentFolder == \E folderPath \in CallPaths :
  LET absPath == resolve(folderPath)
  IN /\ calls < MaxCalls
     /\ calls' = calls + 1
     /\ recent' = addRecentFolder(recent, folderPath)
     /\ lastCall' = [path |-> absPath, existed |-> existsSync(absPath),
                     found |-> recent,
                     lastExisting |-> IF existsSync(absPath) THEN absPath
                                      ELSE lastCall.lastExisting]
     /\ UNCHANGED outsideRecent

NextRecent == AddRecentFolder

SpecRecent == InitRecent /\ [][NextRecent]_vars

\* ------------------------------------------------------------------------
\* The parser and the serializer as functions of one string: the string is
\* parsed as a file content, or given to updateEntry as the new value of B
\* in the example file, which is then written.
\* ------------------------------------------------------------------------
MaxStr == 4

TextAlphabet == {"a", SP, HASH, EQ, DQ, SQ, BS, LF}

Strings == UNION {[1..n -> TextAlphabet] : n \in 0..MaxStr} \cup {SecretValue}

InitText ==
  /\ input \in Strings
  /\ stage = "new"
  /\ result = <<>>
  /\ emitted = <<>>
  /\ StoreIdle
  /\ HttpIdle
  /\ QueueIdle
  /\ UiIdle
  /\ RecentIdle
  /\ FetchIdle
  /\ FilesIdle

ParseText ==
  /\ stage = "new"
  /\ result' = parseEnvFile(input)
  /\ stage' = "parsed"
  /\ UNCHANGED <<input, emitted>>
  /\ UNCHANGED outsideText

UpdateAndWrite ==
  /\ stage = "new"
  /\ result' = updateEntry(parseEnvFile(ExampleText), <<"B">>, input).lines
  /\ emitted' = writeEnvFile(result')
  /\ stage' = "written"
  /\ UNCHANGED input
  /\ UNCHANGED outsideText

NextText == ParseText \/ UpdateAndWrite

SpecText == InitText /\ [][NextText]_vars

\* ------------------------------------------------------------------------
\* Properties of the store
\* ------------------------------------------------------------------------
EntryIndexes(lines) == {i \in 1..Len(lines) : lines[i].type = "entry"}

\* The value a lookup of key returns: the first entry with that key.
Lookup(lines, key) == lines[FindIndex(lines, key)].value

\* The key -> value mapping of a document (first occurrence wins).
KeyValues(lines) ==
  {<<lines[i].key, Lookup(lines, lines[i].key)>> : i \in EntryIndexes(lines)}

UniqueKeys(lines) ==
  \A i, j \in EntryIndexes(lines) : lines[i].key = lines[j].key => i = j

NonEntryLines(lines) == SelectSeq(lines, LAMBDA l : l.type # "entry")

\* The right-hand side of an entry line is wrapped in single quotes.
SingleQuoted(raw) ==
  LET rhs == Trim(SubSeq(raw, IndexOf(raw, EQ) + 1, Len(raw)))
  IN StartsWith(rhs, <<SQ>>) /\ EndsWith(rhs, <<SQ>>)

\* A text with no single-quoted value and no value that needs quotes.
PlainText(content) ==
  LET lines == parseEnvFile(content)
  IN \A i \in EntryIndexes(lines) :
       ~SingleQuoted(lines[i].raw) /\ ~NeedsQuotes(lines[i].value)

\* C1: parsing a text with no single-quoted value and no value that needs
\* quotes, and writing the unmodified document, reproduces the text exactly.
C1_RoundTrip ==
  (pc = "saved" /\ ops = 0 /\ PlainText(source)) => text = source

\* C2: the entries read back from serialize(parse(serialize(doc))) have the
\* key -> value mapping of doc, for every document reached by parsing and
\* mutator calls.
C2_SaveIdempotent ==
  pc = "loaded" =>
    KeyValues(parseEnvFile(writeEnvFile(parseEnvFile(writeEnvFile(parsed)))))
      = KeyValues(parsed)

\* C4: after a successful addEntry(doc, k, v) the lookup of k returns v; an
\* addEntry for a key that is present fails and the first entry with that
\* key keeps its place and value.
C4_AddThenFind ==
  /\ (call.op = "add" /\ call.ok) =>
       /\ FindIndex(parsed, call.key) # 0
       /\ Lookup(parsed, call.key) = call.value
  /\ (call.op = "add" /\ FindIndex(before, call.key) # 0) =>
       /\ ~call.ok
       /\ FindIndex(parsed, call.key) = FindIndex(before, call.key)
       /\ Lookup(parsed, call.key) = Lookup(before, call.key)

\* The second of two addEntry calls for one key has failed: the document
\* grew by the one line of the first call, which carries the key.
C4_Witness ==
  /\ call.op = "add" /\ ~call.ok /\ ops = 2
  /\ Len(before) = Len(loaded) + 1
  /\ before[Len(before)].type = "entry"
  /\ before[Len(before)].key = call.key
  /\ FindIndex(before, call.key) = Len(before)
  /\ Lookup(parsed, call.key) = before[Len(before)].value

\* C5: a failed mutator call leaves doc.lines as it was, and the calls that
\* fail are addEntry for a present key and updateEntry / deleteEntry for an
\* absent key.
C5_FailedCallNoChange ==
  /\ ~call.ok => parsed = before
  /\ (call.op = "add" /\ FindIndex(before, call.key) # 0) => ~call.ok
  /\ (call.op \in {"update", "delete"} /\ FindIndex(before, call.key) = 0) => ~call.ok

\* A deleteEntry for an absent key has failed on a document with lines.
C5_Witness ==
  /\ call.op = "delete" /\ ~call.ok
  /\ Len(before) >= 2
  /\ parsed = before

\* C6: the mutators keep the entry keys pairwise distinct when the parsed
\* document had them pairwise distinct.
C6_KeysStayUnique ==
  (pc # "start" /\ UniqueKeys(loaded)) => UniqueKeys(parsed)

\* Two entries with different keys after a failed duplicate add.
C6_Witness ==
  /\ UniqueKeys(loaded)
  /\ call.op = "add" /\ ~call.ok
  /\ Cardinality(EntryIndexes(parsed)) = 2
  /\ ops = 2

\* C7: empty, comment and unknown lines keep their raw text and relative
\* order through the mutators, and the serializer emits each as stored.
C7_NonEntryRawKept ==
  pc # "start" =>
    LET kept == NonEntryLines(parsed)
        orig == NonEntryLines(loaded)
    IN /\ kept = orig
       /\ [i \in 1..Len(kept) |-> WriteLine(kept[i])] = [i \in 1..Len(orig) |-> orig[i].raw]

\* An entry between two non-entry lines was deleted and the file written.
C7_Witness ==
  /\ pc = "saved"
  /\ call.op = "delete" /\ call.ok
  /\ Len(NonEntryLines(parsed)) >= 2
  /\ \E i \in 2..(Len(before) - 1) :
       /\ before[i].type = "entry" /\ before[i].key = call.key
       /\ before[i - 1].type # "entry" /\ before[i + 1].type # "entry"

\* C9: an entry's encrypted flag is true exactly when its value begins
\* with 'encrypted:'.
C9_EncryptedIffPrefix ==
  \A i \in EntryIndexes(parsed) :
    parsed[i].encrypted <=> StartsWith(parsed[i].value, EncPrefix)

\* An encrypted entry was given a plain value, next to an entry that was
\* parsed as encrypted or added as encrypted.
C9_Witness ==
  /\ call.op = "update" /\ call.ok
  /\ before[FindIndex(before, call.key)].encrypted
  /\ ~parsed[FindIndex(parsed, call.key)].encrypted
  /\ \E i \in EntryIndexes(parsed) : parsed[i].encrypted

\* C10: after a successful addEntry or updateEntry the entry's raw is the
\* text the serializer emits for it.
C10_RawIsSerialized ==
  (call.op \in {"add", "update"} /\ call.ok) =>
    LET line == parsed[FindIndex(parsed, call.key)]
    IN line.raw = WriteLine(line)

\* ------------------------------------------------------------------------
\* Properties of the key routes
\* ------------------------------------------------------------------------
\* The entry of the file for key, as the parser reads it.
StoredEntry(file, key) ==
  LET lines == parseEnvFile(file.content)
  IN lines[FindIndex(lines, key)]

HasEntry(file, key) ==
  file.exists /\ FindIndex(parseEnvFile(file.content), key) # 0

\* The text of the entry lines of the file that belong to other keys.
OtherEntryTexts(file, key) ==
  LET lines == SelectSeq(parseEnvFile(file.content),
                         LAMBDA l : l.type = "entry" /\ l.key # key)
  IN [i \in 1..Len(lines) |-> lines[i].raw]

\* C3: an update request that gives an encrypted entry a new plain text
\* leaves a value in the file that begins with 'encrypted:' again.
C3_ReEncryptedOnSave ==
  ( /\ req.route = "update" /\ req.status = 200
    /\ HasEntry(diskBefore, req.key.s)
    /\ StoredEntry(diskBefore, req.key.s).encrypted
    /\ ~StartsWith(req.value.s, EncPrefix) )
  => /\ HasEntry(disk, req.key.s)
     /\ StartsWith(StoredEntry(disk, req.key.s).value, EncPrefix)

\* C8: the save of an add, update or delete request leaves the text of
\* every entry line of another key as it was.
C8_OtherEntryLinesKept ==
  (req.route \in {"add", "update", "delete"} /\ req.status = 200) =>
    OtherEntryTexts(disk, req.key.s) = OtherEntryTexts(diskBefore, req.key.s)

\* ------------------------------------------------------------------------
\* Properties of the serializer and the parser on one string
\* ------------------------------------------------------------------------
QuoteTriggers == {SP, HASH, LF, DQ, SQ}

\* Number of double quotes among the first n characters of s.
QuotesUpTo(s, n) == Cardinality({j \in 1..n : s[j] = DQ})

\* t is s with a backslash put before each double quote and nothing else
\* changed.
IsEscaped(t, s) ==
  /\ Len(t) = Len(s) + QuotesUpTo(s, Len(s))
  /\ \A i \in 1..Len(s) :
       LET p == i + QuotesUpTo(s, i)
       IN /\ t[p] = s[i]
          /\ s[i] = DQ => t[p - 1] = BS

\* The lines of the example file around the B line.
ExampleHead ==
  <<"#", " ", "c", "o", "m", "m", "e", "n", "t", LF, "A", "=", "1", LF, LF>>

\* The B line of the written example file.
EmittedB == SubSeq(emitted, Len(ExampleHead) + 1, Len(emitted) - 1)

\* C11: an entry is emitted as key="value" with each embedded double quote
\* prefixed by a backslash exactly when the value holds a space, '#', a
\* line-feed or a quote, and as key=value otherwise; the value
\* 'secret value' for B is emitted as B="secret value".
C11_QuotedWhenNeeded ==
  stage = "written" =>
    /\ StartsWith(emitted, ExampleHead)
    /\ emitted[Len(emitted)] = LF
    /\ IF \E i \in 1..Len(input) : input[i] \in QuoteTriggers
       THEN /\ StartsWith(EmittedB, <<"B", EQ, DQ>>)
            /\ EmittedB[Len(EmittedB)] = DQ
            /\ Len(EmittedB) >= 4
            /\ IsEscaped(SubSeq(EmittedB, 4, Len(EmittedB) - 1), input)
       ELSE EmittedB = <<"B", EQ>> \o input
    /\ input = SecretValue =>
         EmittedB = <<"B", "=", DQ, "s", "e", "c", "r", "e", "t", " ",
                      "v", "a", "l", "u", "e", DQ>>

\* B was given the value 'secret value' and the file written.
C11_Witness ==
  /\ stage = "written"
  /\ input = SecretValue
  /\ result[4].value = SecretValue
  /\ Len(emitted) = Len(ExampleHead) + 17

\* The right-hand side of an entry line, trimmed.
TrimmedRhs(raw) == Trim(SubSeq(raw, IndexOf(raw, EQ) + 1, Len(raw)))

C12_ExampleParsedAndKept ==
  source = ExampleText =>
    /\ pc # "start" =>
         getEntries(loaded) =
           << [key |-> <<"A">>, value |-> <<"1">>, encrypted |-> FALSE],
              [key |-> <<"B">>,
               value |-> <<"h", "a", "s", " ", "s", "p", "a", "c", "e">>,
               encrypted |-> FALSE] >>
    /\ (pc = "saved" /\ ops = 0) => text = source

\* The example text was parsed and written with no mutator call between.
C12_Witness ==
  /\ source = ExampleText
  /\ pc = "saved"
  /\ ops = 0
  /\ Len(loaded) = 5

\* C15: a successful addEntry appends the new entry as the last line,
\* whatever its key, and the lines that were there keep their content and
\* order.
C15_AddAppendsLast ==
  (call.op = "add" /\ call.ok) =>
    /\ Len(parsed) = Len(before) + 1
    /\ SubSeq(parsed, 1, Len(before)) = before
    /\ parsed[Len(parsed)].type = "entry"
    /\ parsed[Len(parsed)].key = call.key
    /\ parsed[Len(parsed)].value = call.value

\* A was added to a document that holds an entry B, and is the last line.
C15_Witness ==
  /\ call.op = "add"
  /\ call.ok
  /\ call.key = <<"A">>
  /\ FindIndex(before, <<"B">>) # 0
  /\ FindIndex(parsed, <<"A">>) = Len(parsed)

\* C16: a successful updateEntry changes the value and the encrypted marker
\* of the matched entry where it stands: the number of lines, the position
\* of the entry, its type and key, and every other line are as before.
C16_UpdateInPlace ==
  (call.op = "update" /\ call.ok) =>
    LET i == FindIndex(before, call.key)
    IN /\ i # 0
       /\ Len(parsed) = Len(before)
       /\ FindIndex(parsed, call.key) = i
       /\ \A j \in 1..Len(before) : j # i => parsed[j] = before[j]
       /\ parsed[i].type = "entry"
       /\ parsed[i].key = before[i].key
       /\ parsed[i].value = call.value
       /\ parsed[i].encrypted = StartsWith(call.value, EncPrefix)

\* The first of two lines was given another value and an encrypted marker
\* it did not have.
C16_Witness ==
  /\ call.op = "update"
  /\ call.ok
  /\ Len(before) = 2
  /\ FindIndex(before, call.key) = 1
  /\ parsed[1].value # before[1].value
  /\ parsed[1].encrypted /\ ~before[1].encrypted

\* C17: a successful deleteEntry removes one line, the matched entry; the
\* lines above it stay where they were and the lines below it move up by
\* one, blank and comment lines next to it included.
C17_DeleteRemovesOneLine ==
  (call.op = "delete" /\ call.ok) =>
    LET i == FindIndex(before, call.key)
    IN /\ i # 0
       /\ before[i].type = "entry"
       /\ before[i].key = call.key
       /\ Len(parsed) = Len(before) - 1
       /\ \A j \in 1..Len(parsed) :
            parsed[j] = (IF j < i THEN before[j] ELSE before[j + 1])

\* An entry under a comment line was deleted and the comment is still there.
C17_Witness ==
  /\ call.op = "delete"
  /\ call.ok
  /\ Len(before) = 2
  /\ before[1].type = "comment"
  /\ parsed = <<before[1]>>

\* The indexes of the entry lines of a document that carry the key.
IndexesOf(lines, key) ==
  {i \in 1..Len(lines) : lines[i].type = "entry" /\ lines[i].key = key}

\* C18: when several entry lines carry the same key, the first in document
\* order is the one looked up, the one updateEntry modifies and the one
\* deleteEntry removes; the later ones are left as they are.
C18_FirstDuplicateWins ==
  \A key \in Keys :
    LET D == IndexesOf(before, key)
    IN Cardinality(D) >= 2 =>
         LET f == CHOOSE i \in D : \A j \in D : i <= j
         IN /\ FindIndex(before, key) = f
            /\ (call.op = "update" /\ call.key = key) =>
                 /\ call.ok
                 /\ parsed[f].value = call.value
                 /\ \A j \in D \ {f} : parsed[j] = before[j]
            /\ (call.op = "delete" /\ call.key = key) =>
                 /\ call.ok
                 /\ Len(parsed) = Len(before) - 1
                 /\ \A j \in 1..(f - 1) : parsed[j] = before[j]
                 /\ \A j \in D \ {f} : parsed[j - 1] = before[j]
            /\ (call.op = "add" /\ call.key = key) =>
                 /\ ~call.ok
                 /\ parsed = before

\* The first of two entries with the same key was given a value the
\* second does not have.
C18_Witness ==
  /\ call.op = "update"
  /\ call.ok
  /\ IndexesOf(before, call.key) = {1, 2}
  /\ parsed[1].value = call.value
  /\ parsed[2] = before[2]
  /\ parsed[2].value # call.value

\* The first of two entries with the same key was deleted and the second
\* is what is left.
C18_WitnessDelete ==
  /\ call.op = "delete"
  /\ call.ok
  /\ IndexesOf(before, call.key) = {1, 2}
  /\ parsed = <<before[2]>>

\* C19: getEntries returns the entry lines of the document as
\* {key, value, encrypted}, in document order, one per entry line even when
\* keys repeat, and nothing for the other lines.
C19_ListsEntryLines ==
  LET listed == getEntries(parsed)
      I == {i \in 1..Len(parsed) : parsed[i].type = "entry"}
  IN /\ Len(listed) = Cardinality(I)
     /\ \A i \in I :
          listed[Cardinality({j \in I : j <= i})] =
            [key |-> parsed[i].key, value |-> parsed[i].value,
             encrypted |-> parsed[i].encrypted]

\* A document with two entries of the same key and a third entry lists
\* three entries.
C19_Witness ==
  /\ Len(parsed) = 3
  /\ Len(getEntries(parsed)) = 3
  /\ getEntries(parsed)[1].key = getEntries(parsed)[2].key
  /\ getEntries(parsed)[1].value # getEntries(parsed)[2].value

\* A document with a comment line between entries lists the entries only.
C19_WitnessComment ==
  /\ source = ExampleText
  /\ pc = "loaded"
  /\ Len(parsed) = 5
  /\ Len(getEntries(parsed)) = 2

\* ------------------------------------------------------------------------
\* Properties of requests in flight together
\* ------------------------------------------------------------------------
\* The request served j-th was received before the one served just before
\* it was handled: the two were in flight together.
InFlightTogether(j) == j >= 2 /\ served[j].behind < j - 1

\* The request served j-th loaded the file as the one before it loaded it,
\* and wrote over what that one had written.
Overwrote(j) ==
  /\ InFlightTogether(j)
  /\ served[j - 1].status = 200
  /\ served[j].status = 200
  /\ served[j - 1].wrote # served[j - 1].loaded
  /\ served[j].loaded = served[j - 1].loaded

LostUpdate == \E j \in 1..Len(served) : Overwrote(j)

C14_MaskedUntilToggled ==
  \A i \in 1..Len(entries) :
    entries[i].key \in visibleValues => entries[i].key \in toggledOn

\* ------------------------------------------------------------------------
\* Further properties of the parser
\* ------------------------------------------------------------------------
LineTypes == {"empty", "comment", "entry", "unknown"}

\* C21: parsing any text gives one line per line-feed-separated segment, in
\* order, each of one type and with the segment as its raw text; there are
\* (number of line-feeds + 1) lines, and a text that ends in a line-feed
\* ends in an empty line.
C21_ParseKeepsEveryLine ==
  stage = "parsed" =>
    /\ Len(result) = Cardinality({i \in 1..Len(input) : input[i] = LF}) + 1
    /\ \A i \in 1..Len(result) :
         /\ result[i].type \in LineTypes
         /\ ~Includes(result[i].raw, LF)
    /\ Join([i \in 1..Len(result) |-> result[i].raw]) = input
    /\ (input # <<>> /\ input[Len(input)] = LF) =>
         /\ result[Len(result)].type = "empty"
         /\ result[Len(result)].raw = <<>>

\* A text of an entry line, a line without '=', and a final line-feed was
\* parsed into three lines.
C21_Witness ==
  /\ stage = "parsed"
  /\ Len(input) = MaxStr
  /\ input[Len(input)] = LF
  /\ Len(result) = 3
  /\ result[1].type = "entry"
  /\ result[2].type = "unknown"
  /\ result[3].type = "empty"

\* The positions of the characters of a line that are not white space, and
\* the positions of its '=' characters.
InkOf(raw) == {i \in 1..Len(raw) : raw[i] \notin WhiteSpace}
EqsOf(raw) == {i \in 1..Len(raw) : raw[i] = EQ}
FirstOf(S) == CHOOSE i \in S : \A j \in S : i <= j

\* C22: a line with nothing but white space is empty; otherwise a line whose
\* first character after white space is '#' is a comment, with or without
\* '='; otherwise a line with '=' is an entry whose key is the trimmed text
\* before the first '=' and whose value comes from all that follows it, so
\* that later '=' characters are in the value; otherwise the line is unknown.
C22_LineClassified ==
  stage = "parsed" =>
    \A i \in 1..Len(result) :
      LET raw == result[i].raw
          line == result[i]
      IN IF InkOf(raw) = {} THEN line.type = "empty"
         ELSE IF raw[FirstOf(InkOf(raw))] = HASH THEN line.type = "comment"
         ELSE IF EqsOf(raw) # {}
              THEN /\ line.type = "entry"
                   /\ line.key = Trim(SubSeq(raw, 1, FirstOf(EqsOf(raw)) - 1))
                   /\ ~Includes(line.key, EQ)
                   /\ Cardinality(EqsOf(line.value)) = Cardinality(EqsOf(raw)) - 1
                   /\ line.value = ParseValue(SubSeq(raw, FirstOf(EqsOf(raw)) + 1, Len(raw)))
              ELSE line.type = "unknown"

\* A line with two '=' was parsed: the second is in the value.
C22_Witness ==
  /\ stage = "parsed"
  /\ Len(result) = 1
  /\ result[1].type = "entry"
  /\ result[1].key = <<"a">>
  /\ result[1].value = <<EQ, "a">>

\* A line that starts with '#' and holds '=' was parsed as a comment.
C22_WitnessComment ==
  /\ stage = "parsed"
  /\ input = <<SP, HASH, "a", EQ>>
  /\ result[1].type = "comment"

\* ------------------------------------------------------------------------
\* Further properties of the key routes
\* ------------------------------------------------------------------------
\* The request cannot be carried out on the file as it was.
MustFail ==
  \/ ~diskBefore.exists
  \/ /\ req.route = "add"
     /\ \/ req.key.t # "string"
        \/ req.key.s = <<>>
        \/ ~isValidKey(req.key.s)
        \/ req.value.t = "number"
        \/ HasEntry(diskBefore, req.key.s)
  \/ /\ req.route = "update"
     /\ \/ req.value.t # "string"
        \/ ~HasEntry(diskBefore, req.key.s)
  \/ /\ req.route = "delete"
     /\ ~HasEntry(diskBefore, req.key.s)

C24_WritesThePathRead ==
  \A j \in 1..Len(served) :
    served[j].route # "folder" =>
      /\ served[j].wrote \subseteq {served[j].read}
      /\ (served[j].status = 200 /\ served[j].route \in {"add", "delete"}) =>
           served[j].wrote = {served[j].read}

\* An edit received in folder /a was handled after a change to /b: it read
\* and wrote /b/.env.
C24_Witness ==
  /\ Len(served) >= 2
  /\ served[1].route = "folder"
  /\ served[1].status = 200
  /\ served[2].route # "folder"
  /\ served[2].cwdSeen = "/a"
  /\ served[2].status = 200
  /\ served[2].read = <<"/b", ".env">>
  /\ served[2].wrote = {<<"/b", ".env">>}

\* C25: the files start with pairwise distinct entry keys, and after any
\* sequence of add, update and delete requests the entries parsed from the
\* file on disk have pairwise distinct keys.
C25_KeysUniqueOnDisk ==
  disk.exists => UniqueKeys(parseEnvFile(disk.content))

\* ------------------------------------------------------------------------
\* Properties of the page with requests on their way
\* ------------------------------------------------------------------------
\* C26: when no request is on its way, the table holds the entries of the
\* current file, whatever the order in which the answers arrived.
C26_TableShowsCurrentFile ==
  fetches = {} =>
    entries = IF currentFile # "null" /\ tree[cwd][currentFile].exists
              THEN FetchEntries(tree[cwd][currentFile])
              ELSE <<>>

\* C27: after an add or a delete made through the page, the table holds
\* the keys, values and encrypted flags that a fetch of the current file
\* would answer.
C27_TableEqualsFetch ==
  (currentFile # "null" /\ tree[cwd][currentFile].exists) =>
    LET fresh == FetchEntries(tree[cwd][currentFile])
    IN /\ Len(entries) = Len(fresh)
       /\ \A i \in 1..Len(entries) :
            /\ entries[i].key = fresh[i].key
            /\ entries[i].value = fresh[i].value
            /\ entries[i].encrypted = fresh[i].encrypted

\* ------------------------------------------------------------------------
\* Properties of the routes that take a file name
\* ------------------------------------------------------------------------
\* C28: every file read, written or encrypted through the routes
\* /api/files/:filename... has a name that starts with '.env'.
C28_OnlyEnvFilesTouched ==
  \A t \in touched : StartsWith(t.name, DotEnv)

\* C30: creating an env file never overwrites. A create request for a name
\* that exists in the current folder is answered 400 'File already exists'
\* and the file keeps its contents; a create request whose filename is
\* missing, empty or does not start with '.env' is answered 400 and creates
\* nothing; a filename that is not a string creates nothing either. Only a
\* new name that starts with '.env' creates a file, with the header line.
C30_CreateNeverOverwrites ==
  fileReq.route = "create" =>
    LET f == fileReq.filename
        named == f.t = "string" /\ f.s # <<>>
        valid == named /\ StartsWith(f.s, DotEnv)
    IN /\ (valid /\ dirBefore[f.s].exists) =>
            /\ fileReq.status = 400
            /\ fileReq.error = "File already exists"
            /\ dir = dirBefore
       /\ (f.t = "undefined" \/ (f.t = "string" /\ ~valid)) =>
            /\ fileReq.status = 400
            /\ dir = dirBefore
       /\ f.t \notin {"string", "undefined"} => dir = dirBefore
       /\ \A n \in FolderFiles : dirBefore[n].exists => dir[n] = dirBefore[n]
       /\ (valid /\ ~dirBefore[f.s].exists) =>
            /\ fileReq.status = 200
            /\ dir = [dirBefore EXCEPT ![f.s] = File(NewFileText)]

\* A create request named '.env', which exists with the entry A=1, was
\* answered 400 and the file still holds A=1.
C30_Witness ==
  /\ fileReq.route = "create"
  /\ fileReq.filename = Str(DotEnv)
  /\ dirBefore[DotEnv] = File(<<"A", EQ, "1">>)
  /\ fileReq.status = 400
  /\ dir[DotEnv] = File(<<"A", EQ, "1">>)

\* A create request for a name that does not start with '.env' was answered
\* 400 and the folder is as before.
C30_WitnessInvalid ==
  /\ fileReq.route = "create"
  /\ fileReq.filename.t = "string"
  /\ ~StartsWith(fileReq.filename.s, DotEnv)
  /\ fileReq.status = 400
  /\ dir = dirBefore

\* ------------------------------------------------------------------------
\* Properties of the recent-folders list
\* ------------------------------------------------------------------------
\* C29: after any sequence of addRecentFolder calls the stored list holds no
\* path twice and at most maxRecent items, its first item is the folder of
\* the latest call whose path existed, and a call with a path that does not
\* exist left the list as it found it.
C29_RecentListKept ==
  /\ \A i, j \in 1..Len(recent) : recent[i].path = recent[j].path => i = j
  /\ Len(recent) <= maxRecent
  /\ lastCall.lastExisting # "" =>
       /\ recent # <<>>
       /\ recent[1].path = lastCall.lastExisting
  /\ (calls > 0 /\ ~lastCall.existed) => recent = lastCall.found

\* A folder that was not in a full list was added: it is first, the list
\* still has maxRecent items, and the oldest one is gone.
C29_Witness ==
  /\ calls > 0
  /\ lastCall.existed
  /\ Len(lastCall.found) = maxRecent
  /\ \A i \in 1..maxRecent : lastCall.found[i].path # lastCall.path
  /\ Len(recent) = maxRecent
  /\ recent[1].path = lastCall.path
  /\ \A i \in 1..maxRecent : recent[i].path # lastCall.found[maxRecent].path

\* A folder that was in the list was added again: it is first and the list
\* is no longer than before.
C29_WitnessAgain ==
  /\ calls > 0
  /\ lastCall.existed
  /\ \E i \in 2..Len(lastCall.found) : lastCall.found[i].path = lastCall.path
  /\ recent[1].path = lastCall.path
  /\ Len(recent) = Len(lastCall.found)

\* A call with a path that does not exist came after a call that changed
\* the list, and left the list as it was.
C29_WitnessMissing ==
  /\ calls > 1
  /\ ~lastCall.existed
  /\ lastCall.path = MissingFolder
  /\ recent # <<>>
  /\ recent = lastCall.found
  /\ recent[1].path # OpenedBefore[1]

====
